---- MODULE Spec2Model ----
(***************************************************************************)
(* Model of footron_build_manager: the webhook listener (server.py), the    *)
(* persisted build data (data.py) and the target configuration (config.py). *)
(*                                                                          *)
(* A request is received, its signature verified, its payload parsed and    *)
(* then handled by handle_workflow_run_completed, which runs synchronously  *)
(* inside the async endpoint handle_webhook.  Every external interaction    *)
(* of the handler (status report, artifact listing, subprocess, reload      *)
(* request, file write) is one step of the model.                           *)
(***************************************************************************)
EXTENDS Integers, Sequences, FiniteSets, TLC

\* ------------------------------------------------------------------ bounds
MaxRequests == 2
MaxDiffKeys == 3

\* --------------------------------------------------------- input universes
Requests == 1..MaxRequests

Keys == {"a", "b"}
Fingerprints == {"1", "2"}

KeyNames == <<"a", "b", "c", "d", "e">>
DiffKeys == {KeyNames[i] : i \in 1..MaxDiffKeys}

MapsOver(K) == UNION {[S -> Fingerprints] : S \in SUBSET K}
FingerprintMaps == MapsOver(Keys)
EmptyMap == [k \in {} |-> "1"]

\* ------------------------------------------------------------ config.py
\* controller_path is kept as the list of its ":"-separated parts
config_targets ==
    [b \in {"main", "dev"} |->
        IF b = "main"
        THEN [controller_path |-> <<"footron", "/opt/footron">>]
        ELSE [controller_path |-> <<"/srv/footron">>]]

Branches == DOMAIN config_targets
HeadBranches == Branches \cup {"unknown-branch"}

\* a target whose host part is never seen
controller_host_none(target) == "None"

controller_host(target) ==
    IF Len(target.controller_path) = 1 THEN "None" ELSE target.controller_path[1]

controller_fs_path(target) ==
    IF Len(target.controller_path) = 1
    THEN target.controller_path[1]
    ELSE target.controller_path[2]

\* -------------------------------------------------------------- data.py
EmptyStore == [b \in {} |-> EmptyMap]

\* a dump that leaves out the targets whose map is empty
ToJsonNonEmpty(store) ==
    {<<b, {<<k, store[b][k]>> : k \in DOMAIN store[b]}>> :
        b \in {t \in DOMAIN store : DOMAIN store[t] # {}}}

\* json.dump(build_data.dict()): the file holds, per target, its name and
\* the set of its (key, fingerprint) members
ToJson(store) ==
    {<<b, {<<k, store[b][k]>> : k \in DOMAIN store[b]}>> : b \in DOMAIN store}

\* BuildData.parse_obj(json.load(f))
ParseObj(json) ==
    LET names == {e[1] : e \in json}
        members(b) == (CHOOSE e \in json : e[1] = b)[2]
    IN  [b \in names |->
            [k \in {m[1] : m \in members(b)} |->
                (CHOOSE m \in members(b) : m[1] = k)[2]]]

\* the file at DATA_PATH: `content` is what json.dump has written of the
\* targets, `complete` says that the text has been written to its end
NoFile == [exists |-> FALSE, content |-> {}, complete |-> FALSE]

\* open(DATA_PATH, "w"), and DATA_PATH.touch() on a missing file: zero bytes
EmptyFile == [exists |-> TRUE, content |-> {}, complete |-> FALSE]

\* data.py 25-31, the whole call
save_build_data(build_data) ==
    [exists |-> TRUE, content |-> ToJson(build_data), complete |-> TRUE]

\* json.load on a text that is empty or cut off raises JSONDecodeError
JSONDecodeError(file) == file.exists /\ ~file.complete

load_build_data(file) ==
    IF ~file.exists THEN EmptyStore ELSE ParseObj(file.content)

\* ---------------------------------------------- the diff (server.py 204-216)
\* a diff that forgets to subtract the stored keys
new_hashes_unsubtracted(hashes, existing_hashes) == DOMAIN hashes

new_hashes_of(hashes, existing_hashes) == DOMAIN hashes \ DOMAIN existing_hashes

deleted_hashes_of(hashes, existing_hashes) == DOMAIN existing_hashes \ DOMAIN hashes

overlapping_hashes_of(hashes, existing_hashes) ==
    DOMAIN hashes \cap DOMAIN existing_hashes

\* lines 212-213: the added keys are written into the stored map, which
\* existing_hashes aliases
AddNewHashes(hashes, existing_hashes) ==
    [k \in DOMAIN existing_hashes \cup new_hashes_of(hashes, existing_hashes) |->
        IF k \in new_hashes_of(hashes, existing_hashes)
        THEN hashes[k] ELSE existing_hashes[k]]

\* a diff that compares the manifest with itself: nothing ever changes
changed_hashes_self(hashes, existing_hashes) ==
    {k \in overlapping_hashes_of(hashes, existing_hashes) : hashes[k] # hashes[k]}

changed_hashes_of(hashes, existing_hashes) ==
    LET aliased == AddNewHashes(hashes, existing_hashes)
    IN  {k \in overlapping_hashes_of(hashes, existing_hashes) :
            hashes[k] # aliased[k]}

\* the overlapping keys the loop of lines 214-216 does not add to changed
unchanged_hashes_of(hashes, existing_hashes) ==
    overlapping_hashes_of(hashes, existing_hashes)
        \ changed_hashes_of(hashes, existing_hashes)

\* del data.targets[branch].hashes[hash_key]
DelHash(map, key) == [k \in DOMAIN map \ {key} |-> map[k]]


\* ------------------------------------------------------------------ state
VARIABLES
    data,       \* server.py 23: the in-memory BuildData singleton
    disk,       \* the file at DATA_PATH
    scratch,    \* the requests whose TemporaryDirectory exists
    current,    \* the requests whose synchronous handler occupies the event loop
    req,        \* per request: position, payload, the handler's locals, its log
    lastRun,    \* per branch: the diff of the latest experiences run, if it failed
    writer,     \* a save_build_data call taken step by step: position, chunks left
    reader,     \* what a load_build_data call of another process has returned
    remote      \* per branch: the experiences on the controller, with their fingerprints

vars == <<data, disk, scratch, current, req, lastRun, writer, reader, remote>>

\* ------------------------------------------------------- inbound payloads
RunPayloads ==
    [event_type : {"workflow_run"}, action : {"completed"},
     status : {"completed", "in_progress"}, event : {"push", "pull_request"},
     head_branch : HeadBranches,
     name : {"build-controls", "build-experiences", "lint"}]

OtherPayloads ==
    {[event_type |-> "workflow_run", action |-> "requested", status |-> "queued",
      event |-> "push", head_branch |-> "main", name |-> "build-experiences"],
     [event_type |-> "ping", action |-> "none", status |-> "none",
      event |-> "none", head_branch |-> "main", name |-> "none"]}

\* workflow_job events: `name` is workflow_job["name"]
JobPayloads ==
    [event_type : {"workflow_job"}, action : {"queued", "in_progress"},
     status : {"queued"}, event : {"none"}, head_branch : {"none"},
     name : {"build", "lint"}]

Payloads == RunPayloads \cup OtherPayloads \cup JobPayloads

\* what GET workflow_job["run_url"] answers: a workflow run as the GitHub API
\* and the webhook payload (server.py 72-76) describe it, with its branch
\* under "head_branch"; `branch` is the value under the key "branch", or
\* "absent" when the object has no such key
RunResponses ==
    {[event |-> e, name |-> n, head_branch |-> b,
      branch |-> IF has_key THEN b ELSE "absent"] :
        e \in {"push", "pull_request"},
        n \in {"build-controls", "build-experiences", "lint"},
        b \in HeadBranches,
        has_key \in BOOLEAN}

NoRunResponse ==
    [event |-> "none", name |-> "none", head_branch |-> "none", branch |-> "none"]

NoPayload == [event_type |-> "none", action |-> "none", status |-> "none",
              event |-> "none", head_branch |-> "none", name |-> "none"]

\* --------------------------------------------------------- request records
IdleReq ==
    [pc |-> "idle", body |-> NoPayload, result |-> "none", error |-> "none",
     run_response |-> NoRunResponse,
     artifacts |-> {}, hashes |-> EmptyMap, diffed |-> FALSE,
     new_hashes |-> {}, deleted_hashes |-> {}, changed_hashes |-> {},
     unchanged_hashes |-> {}, todo |-> {},
     log |-> <<>>, preData |-> EmptyStore, preDisk |-> NoFile]

DoneReq == [IdleReq EXCEPT !.pc = "done"]

Entry(kind, what, arg, res) == [kind |-> kind, what |-> what, arg |-> arg, res |-> res]

Logged(rec, entry) == [rec EXCEPT !.log = Append(@, entry)]

\* an exception propagates out of handle_webhook
Raised(rec, err) == [rec EXCEPT !.pc = "end", !.result = "raised", !.error = err]

\* handle_webhook returns {"status": "ok"}
Returned(rec, how) == [rec EXCEPT !.pc = "end", !.result = how]

\* a directory made with mkdtemp and never removed
ExitTemporaryDirectoryLeak(dirs, r) == dirs

\* TemporaryDirectory.__exit__ (server.py 110, 170): on return and on raise
ExitTemporaryDirectory(dirs, r) == dirs \ {r}

\* handle_webhook is a coroutine that calls the handler without awaiting:
\* the handler of r runs only while no other handler occupies the loop
CanRunThreaded(r) == TRUE

CanRun(r) == current \subseteq {r}

\* what a failed run leaves for a retry to be compared with
NoSummary ==
    [failed |-> FALSE, manifest |-> EmptyMap, added |-> {}, changed |-> {},
     deleted |-> {}]

RunSummary(rec) ==
    [failed |-> TRUE, manifest |-> rec.hashes, added |-> rec.new_hashes,
     changed |-> rec.changed_hashes, deleted |-> rec.deleted_hashes]

\* no save_build_data call is under way
IdleWriter == [pc |-> "idle", todo |-> {}, before |-> NoFile]

\* no load_build_data call has returned
NotLoaded == [how |-> "none", store |-> EmptyStore]

\* ------------------------------------------------------------------- Init
Init ==
    /\ disk = NoFile
    /\ data = load_build_data(disk)
    /\ scratch = {}
    /\ current = {}
    /\ req = [r \in Requests |-> IdleReq]
    /\ lastRun = [b \in Branches |-> NoSummary]
    /\ writer = IdleWriter
    /\ reader = NotLoaded
    /\ remote = [b \in Branches |-> EmptyMap]

\* ------------------------------------------------------- handle_webhook
Receive(r) ==
    /\ req[r].pc = "idle"
    /\ req' = [req EXCEPT ![r] = [@ EXCEPT !.pc = "verify"]]
    /\ UNCHANGED <<data, disk, scratch, current, lastRun, writer, reader, remote>>

\* server.py 27-35: awaits the request body and checks its signature
verify_github_webhook(r) ==
    /\ req[r].pc = "verify"
    /\ CanRun(r)
    /\ \/ \E body \in Payloads :
             req' = [req EXCEPT ![r] = [@ EXCEPT !.pc = "json", !.body = body]]
       \/ req' = [req EXCEPT ![r] = Raised(@, "Unauthorized")]
    /\ UNCHANGED <<data, disk, scratch, current, lastRun, writer, reader, remote>>

\* server.py 73: the run is not a completed, push-triggered run
NotCompletedPushAnd(workflow_run) ==
    workflow_run.status # "completed" /\ workflow_run.event # "push"

NotCompletedPush(workflow_run) ==
    workflow_run.status # "completed" \/ workflow_run.event # "push"

\* a dispatch whose last branch is an `else`: any other name is deployed as
\* experiences
RunCompletedEntryElse(rec) ==
    IF NotCompletedPush(rec.body) THEN Returned(rec, "ignored")
    ELSE IF rec.body.head_branch \notin DOMAIN config_targets
         THEN Returned(rec, "ignored")
    ELSE IF rec.body.name = "build-controls"
         THEN [rec EXCEPT !.pc = "c_list"]
         ELSE [rec EXCEPT !.pc = "e_list"]

\* a dispatch with the two pipelines in each other's place
RunCompletedEntrySwapped(rec) ==
    IF NotCompletedPush(rec.body) THEN Returned(rec, "ignored")
    ELSE IF rec.body.head_branch \notin DOMAIN config_targets
         THEN Returned(rec, "ignored")
    ELSE IF rec.body.name \notin {"build-controls", "build-experiences"}
         THEN Raised(rec, "Unknown event name")
    ELSE IF rec.body.name = "build-controls"
         THEN [rec EXCEPT !.pc = "e_list"]
         ELSE [rec EXCEPT !.pc = "c_list"]

\* server.py 70-93: where handle_workflow_run_completed goes first
RunCompletedEntry(rec) ==
    IF NotCompletedPush(rec.body) THEN Returned(rec, "ignored")
    ELSE IF rec.body.head_branch \notin DOMAIN config_targets
         THEN Returned(rec, "ignored")
    ELSE IF rec.body.name \notin {"build-controls", "build-experiences"}
         THEN Raised(rec, "Unknown event name")
    ELSE IF rec.body.name = "build-controls"
         THEN [rec EXCEPT !.pc = "c_list"]
         ELSE [rec EXCEPT !.pc = "e_list"]

\* server.py 314-319: a job that is not the build job is left alone
JobQueuedEntry(rec) ==
    IF rec.body.name # "build" THEN Returned(rec, "ignored")
    ELSE [rec EXCEPT !.pc = "q_fetch"]

handle_webhook(r) ==
    /\ req[r].pc = "json"
    /\ CanRun(r)
    /\ current' = current \cup {r}
    /\ LET rec == [req[r] EXCEPT !.preData = data, !.preDisk = disk]
       IN  IF rec.body.event_type = "workflow_run" /\ rec.body.action = "completed"
           THEN req' = [req EXCEPT ![r] = RunCompletedEntry(rec)]
           ELSE IF rec.body.event_type = "workflow_job" /\ rec.body.action = "queued"
           THEN req' = [req EXCEPT ![r] = JobQueuedEntry(rec)]
           ELSE req' = [req EXCEPT ![r] = Returned(rec, "unhandled")]
    /\ UNCHANGED <<data, disk, scratch, lastRun, writer, reader, remote>>

\* server.py 323-333: the condition on the run, evaluated left to right
JobQueuedDecision(rec, run_response) ==
    IF run_response.event # "push" THEN Returned(rec, "ignored")
    ELSE IF run_response.name \notin {"build-experiences", "build-controls"}
         THEN Returned(rec, "ignored")
    ELSE IF run_response.branch = "absent" THEN Raised(rec, "KeyError")
    ELSE IF run_response.branch \notin DOMAIN config_targets
         THEN Returned(rec, "ignored")
    ELSE [rec EXCEPT !.pc = "q_status"]

\* server.py 321-333: github_get_request(run_url) and the condition
handle_workflow_job_queued(r) ==
    /\ req[r].pc = "q_fetch"
    /\ CanRun(r)
    /\ \/ req' = [req EXCEPT ![r] =
              Raised(Logged(@, Entry("fetch", "run", "", "raise")), "HTTPError")]
       \/ \E run_response \in RunResponses :
             req' = [req EXCEPT ![r] =
                 JobQueuedDecision(
                     [Logged(@, Entry("fetch", "run", "", "ok"))
                         EXCEPT !.run_response = run_response],
                     run_response)]
    /\ UNCHANGED <<data, disk, scratch, current, lastRun, writer, reader, remote>>

\* server.py 335-341: the `pending` report of a queued build
create_status(r) ==
    /\ req[r].pc = "q_status"
    /\ CanRun(r)
    /\ LET desc == "Waiting for build to finish"
       IN  \/ req' = [req EXCEPT ![r] =
                 Returned(Logged(@, Entry("status", "pending", desc, "ok")),
                          "reported")]
           \/ req' = [req EXCEPT ![r] =
                 Raised(Logged(@, Entry("status", "pending", desc, "raise")),
                        "GithubException")]
    /\ UNCHANGED <<data, disk, scratch, current, lastRun, writer, reader, remote>>


\* ------------------------------------- handle_workflow_run_completed, steps
Branch(rec) == rec.body.head_branch

Target(rec) == config_targets[Branch(rec)]

ExpectedArtifact(event_name) ==
    IF event_name = "build-controls" THEN "web-build" ELSE "experiences"

\* a search of the listing without its `else`: the run goes on without a url
ArtifactFoundAlways(artifacts, event_name) == TRUE

\* server.py 102-107, 163-168: the for/else over the listing
ArtifactFound(artifacts, event_name) == ExpectedArtifact(event_name) \in artifacts

\* github_get_request(artifacts_url) and the search of the listing
\* (server.py 97-107, 159-168); on success the TemporaryDirectory is entered
ListArtifacts(r) ==
    /\ req[r].pc \in {"c_list", "e_list"}
    /\ CanRun(r)
    /\ \/ /\ req' = [req EXCEPT ![r] =
                      Raised(Logged(@, Entry("fetch", "artifacts", "", "raise")),
                             "HTTPError")]
          /\ UNCHANGED scratch
       \/ \E names \in SUBSET {"web-build", "experiences"} :
             LET rec == [Logged(req[r], Entry("fetch", "artifacts", "", "ok"))
                            EXCEPT !.artifacts = names]
             IN  IF ArtifactFound(names, rec.body.name)
                 THEN /\ req' = [req EXCEPT ![r] =
                            [rec EXCEPT !.pc =
                                IF @ = "c_list" THEN "c_st_dl" ELSE "e_st_dl"]]
                      /\ scratch' = scratch \cup {r}
                 ELSE /\ req' = [req EXCEPT ![r] = Raised(rec, "Missing build")]
                      /\ UNCHANGED scratch
    /\ UNCHANGED <<data, disk, current, lastRun, writer, reader, remote>>

\* the `pending` reports, in the order of the code: description and what follows
StatusSteps ==
    [p \in {"c_st_dl", "c_st_ex", "c_st_copy", "c_st_reload",
            "e_st_dl", "e_st_ex", "e_st_cmp", "e_st_del", "e_st_sync",
            "e_st_aux", "e_st_reload"} |->
        CASE p = "c_st_dl"     -> [desc |-> "Downloading artifacts", next |-> "c_curl"]
          [] p = "c_st_ex"     -> [desc |-> "Extracting artifacts", next |-> "c_unzip"]
          [] p = "c_st_copy"   -> [desc |-> "Copying web build", next |-> "c_rsync"]
          [] p = "c_st_reload" -> [desc |-> "Reloading controller", next |-> "c_reload"]
          [] p = "e_st_dl"     -> [desc |-> "Downloading artifacts", next |-> "e_curl"]
          [] p = "e_st_ex"     -> [desc |-> "Extracting artifacts", next |-> "e_unzip"]
          [] p = "e_st_cmp"    -> [desc |-> "Comparing hashes", next |-> "e_read"]
          [] p = "e_st_del"    ->
                [desc |-> "Deleting deleted experiences", next |-> "e_del"]
          [] p = "e_st_sync"   -> [desc |-> "Syncing experiences", next |-> "e_sync"]
          [] p = "e_st_aux"    ->
                [desc |-> "Syncing editorial configs", next |-> "e_aux"]
          [] p = "e_st_reload" ->
                [desc |-> "Reloading controller", next |-> "e_reload"]]

\* entering a `for` loop over keys: an empty set skips the body
EnterLoop(rec, p, keys, after) ==
    IF keys = {} THEN [rec EXCEPT !.pc = after, !.todo = {}]
    ELSE [rec EXCEPT !.pc = p, !.todo = keys]

\* the two loops in each other's place
AfterStatusSwapped(rec) ==
    LET step == StatusSteps[rec.pc]
    IN  CASE step.next = "e_del" ->
                EnterLoop(rec, "e_sync", rec.changed_hashes \cup rec.new_hashes,
                          "e_st_sync")
          [] step.next = "e_sync" ->
                EnterLoop(rec, "e_del", rec.deleted_hashes, "e_commit")
          [] OTHER -> [rec EXCEPT !.pc = step.next]

AfterStatus(rec) ==
    LET step == StatusSteps[rec.pc]
    IN  CASE step.next = "e_del" ->
                EnterLoop(rec, "e_del", rec.deleted_hashes, "e_st_sync")
          [] step.next = "e_sync" ->
                EnterLoop(rec, "e_sync", rec.changed_hashes \cup rec.new_hashes,
                          "e_commit")
          [] OTHER -> [rec EXCEPT !.pc = step.next]

\* set_commit_status (server.py 56-59) with state "pending": PyGithub raises
\* when the status sink rejects the report, and nothing catches it
set_commit_status(r) ==
    /\ req[r].pc \in DOMAIN StatusSteps
    /\ CanRun(r)
    /\ LET desc == StatusSteps[req[r].pc].desc
       IN  \/ /\ req' = [req EXCEPT ![r] =
                    AfterStatus(Logged(@, Entry("status", "pending", desc, "ok")))]
              /\ UNCHANGED scratch
           \/ /\ req' = [req EXCEPT ![r] =
                    Raised(Logged(@, Entry("status", "pending", desc, "raise")),
                           "GithubException")]
              /\ scratch' = ExitTemporaryDirectory(scratch, r)
    /\ UNCHANGED <<data, disk, current, lastRun, writer, reader, remote>>

\* subprocess.run without check=True: a non-zero exit status is not an error;
\* it raises only when the program cannot be started
SubprocessOutcomes == {"ok", "nonzero", "raise"}

SubprocessSteps ==
    [p \in {"c_curl", "c_unzip", "c_rsync", "e_curl", "e_unzip", "e_aux"} |->
        CASE p = "c_curl"  -> [kind |-> "curl", what |-> "web-build", next |-> "c_st_ex"]
          [] p = "c_unzip" -> [kind |-> "unzip", what |-> "web-build", next |-> "c_st_copy"]
          [] p = "c_rsync" -> [kind |-> "rsync", what |-> "web", next |-> "c_st_reload"]
          [] p = "e_curl"  -> [kind |-> "curl", what |-> "experiences", next |-> "e_st_ex"]
          [] p = "e_unzip" ->
                [kind |-> "unzip", what |-> "experiences", next |-> "e_st_cmp"]
          [] p = "e_aux"   -> [kind |-> "rsync", what |-> "configs", next |-> "e_st_reload"]]

\* the exit status of curl and unzip says nothing the run depends on: what
\* they leave behind is read at hashes.json
StepOutcomes(step) ==
    IF step.kind \in {"curl", "unzip"} THEN {"exit", "raise"} ELSE SubprocessOutcomes

subprocess_run(r) ==
    /\ req[r].pc \in DOMAIN SubprocessSteps
    /\ CanRun(r)
    /\ LET step == SubprocessSteps[req[r].pc]
       IN  \E res \in StepOutcomes(step) :
             LET rec == Logged(req[r], Entry(step.kind, step.what, "", res))
             IN  IF res = "raise"
                 THEN /\ req' = [req EXCEPT ![r] = Raised(rec, "OSError")]
                      /\ scratch' = ExitTemporaryDirectory(scratch, r)
                 ELSE /\ req' = [req EXCEPT ![r] = [rec EXCEPT !.pc = step.next]]
                      /\ UNCHANGED scratch
    /\ UNCHANGED <<data, disk, current, lastRun, writer, reader, remote>>

\* data.targets[branch].hashes, after `if branch not in data.targets` (201-202)
StoredHashes(store, branch) ==
    IF branch \in DOMAIN store THEN store[branch] ELSE EmptyMap

SetHashes(store, branch, map) ==
    [b \in DOMAIN store \cup {branch} |-> IF b = branch THEN map ELSE store[b]]

\* server.py 198-216: read hashes.json, compute the diff; the added keys are
\* written into the in-memory map here
CompareHashes(r, manifests) ==
    /\ req[r].pc = "e_read"
    /\ CanRun(r)
    /\ \/ /\ req' = [req EXCEPT ![r] = Raised(@, "FileNotFoundError")]
          /\ scratch' = ExitTemporaryDirectory(scratch, r)
          /\ UNCHANGED data
       \/ \E hashes \in manifests :
             LET existing_hashes == StoredHashes(data, Branch(req[r]))
             IN  /\ req' = [req EXCEPT ![r] =
                        [@ EXCEPT !.pc = "e_st_del",
                                  !.hashes = hashes,
                                  !.diffed = TRUE,
                                  !.new_hashes = new_hashes_of(hashes, existing_hashes),
                                  !.deleted_hashes =
                                      deleted_hashes_of(hashes, existing_hashes),
                                  !.changed_hashes =
                                      changed_hashes_of(hashes, existing_hashes),
                                  !.unchanged_hashes =
                                      unchanged_hashes_of(hashes, existing_hashes)]]
                 /\ data' = SetHashes(data, Branch(req[r]),
                                      AddNewHashes(hashes, existing_hashes))
                 /\ UNCHANGED scratch
    /\ UNCHANGED <<disk, current, lastRun, writer, reader, remote>>

\* what `rm -rf <experiences>/<key>` leaves on the controller: the key is gone
\* when the command ran to its end; a command that could not be started, or
\* that failed (no connection to the host), has removed nothing
Removed(experiences, hash_key, res) ==
    IF res = "ok" THEN DelHash(experiences, hash_key) ELSE experiences

\* what `rsync -a --delete <key>/ <experiences>/<key>` leaves on the
\* controller: the key holds the build of this manifest when the command ran
\* to its end, and what it held before otherwise
Transferred(experiences, hash_key, fingerprint, res) ==
    IF res = "ok"
    THEN [k \in DOMAIN experiences \cup {hash_key} |->
             IF k = hash_key THEN fingerprint ELSE experiences[k]]
    ELSE experiences

\* after one iteration of a loop over keys
LoopNext(rec, key, after) ==
    IF rec.todo = {key} THEN [rec EXCEPT !.pc = after, !.todo = {}]
    ELSE [rec EXCEPT !.todo = @ \ {key}]

\* server.py 232-252: one iteration of the delete loop
DeleteExperience(r) ==
    /\ req[r].pc = "e_del"
    /\ CanRun(r)
    /\ \E hash_key \in req[r].todo, res \in SubprocessOutcomes :
          LET channel == IF controller_host(Target(req[r])) # "None"
                         THEN "ssh" ELSE "local"
              rec == Logged(req[r], Entry("rm", channel, hash_key, res))
          IN  /\ data' = SetHashes(data, Branch(rec),
                            DelHash(StoredHashes(data, Branch(rec)), hash_key))
              /\ remote' = [remote EXCEPT ![Branch(rec)] = Removed(@, hash_key, res)]
              /\ IF res = "raise"
                 THEN /\ req' = [req EXCEPT ![r] = Raised(rec, "OSError")]
                      /\ scratch' = ExitTemporaryDirectory(scratch, r)
                 ELSE /\ req' = [req EXCEPT ![r] = LoopNext(rec, hash_key, "e_st_sync")]
                      /\ UNCHANGED scratch
    /\ UNCHANGED <<disk, current, lastRun, writer, reader>>

\* server.py 261-276: one iteration of the sync loop
SyncExperience(r) ==
    /\ req[r].pc = "e_sync"
    /\ CanRun(r)
    /\ \E hash_key \in req[r].todo, res \in SubprocessOutcomes :
          LET rec == Logged(req[r], Entry("rsync", "experience", hash_key, res))
          IN  /\ remote' = [remote EXCEPT ![Branch(rec)] =
                                Transferred(@, hash_key, rec.hashes[hash_key], res)]
              /\ IF res = "raise"
                 THEN /\ req' = [req EXCEPT ![r] = Raised(rec, "OSError")]
                      /\ scratch' = ExitTemporaryDirectory(scratch, r)
                 ELSE /\ req' = [req EXCEPT ![r] = LoopNext(rec, hash_key, "e_commit")]
                      /\ UNCHANGED scratch
    /\ UNCHANGED <<data, disk, current, lastRun, writer, reader>>

\* server.py 278-279: data.targets[branch].hashes = hashes; save_build_data(data)
CommitHashes(r) ==
    /\ req[r].pc = "e_commit"
    /\ CanRun(r)
    /\ data' = SetHashes(data, Branch(req[r]), req[r].hashes)
    /\ disk' = save_build_data(data')
    /\ req' = [req EXCEPT ![r] =
            [Logged(@, Entry("save", "build-data", "", "ok")) EXCEPT !.pc = "e_st_aux"]]
    /\ UNCHANGED <<scratch, current, lastRun, writer, reader, remote>>

\* reload_controller (server.py 50-53), the last statement inside the `with`
reload_controller(r) ==
    /\ req[r].pc \in {"c_reload", "e_reload"}
    /\ CanRun(r)
    /\ \/ req' = [req EXCEPT ![r] =
              [Logged(@, Entry("reload", "controller", "", "ok")) EXCEPT !.pc = "final"]]
       \/ req' = [req EXCEPT ![r] =
              Raised(Logged(@, Entry("reload", "controller", "", "raise")), "HTTPError")]
    /\ scratch' = ExitTemporaryDirectory(scratch, r)
    /\ UNCHANGED <<data, disk, current, lastRun, writer, reader, remote>>

\* server.py 304-311: the only terminal report of the handler
ReportSuccess(r) ==
    /\ req[r].pc = "final"
    /\ CanRun(r)
    /\ \/ req' = [req EXCEPT ![r] =
              Returned(Logged(@, Entry("status", "success", "Successful", "ok")),
                       "success")]
       \/ req' = [req EXCEPT ![r] =
              Raised(Logged(@, Entry("status", "success", "Successful", "raise")),
                     "GithubException")]
    /\ UNCHANGED <<data, disk, scratch, current, lastRun, writer, reader, remote>>


\* the response is sent (200, or the error of the raised exception) and the
\* handler's locals are gone
Respond(r) ==
    /\ req[r].pc = "end"
    /\ CanRun(r)
    /\ current' = current \ {r}
    /\ lastRun' =
          IF req[r].diffed
          THEN [lastRun EXCEPT ![Branch(req[r])] =
                   IF req[r].result = "success" THEN NoSummary ELSE RunSummary(req[r])]
          ELSE lastRun
    /\ req' = [req EXCEPT ![r] = DoneReq]
    /\ UNCHANGED <<data, disk, scratch, writer, reader, remote>>

Next ==
    \E r \in Requests :
        \/ Receive(r)
        \/ verify_github_webhook(r)
        \/ handle_webhook(r)
        \/ ListArtifacts(r)
        \/ set_commit_status(r)
        \/ subprocess_run(r)
        \/ CompareHashes(r, FingerprintMaps)
        \/ DeleteExperience(r)
        \/ SyncExperience(r)
        \/ CommitHashes(r)
        \/ reload_controller(r)
        \/ ReportSuccess(r)
        \/ handle_workflow_job_queued(r)
        \/ create_status(r)
        \/ Respond(r)

Spec == Init /\ [][Next]_vars


\* ------------------------------------------- the diff on arbitrary inputs
\* request 1 is an experiences run on "main" about to read hashes.json; the
\* store holds any map over DiffKeys for "main", or no entry for it
DiffRun ==
    [IdleReq EXCEPT !.pc = "e_read",
                    !.body = [event_type |-> "workflow_run", action |-> "completed",
                              status |-> "completed", event |-> "push",
                              head_branch |-> "main", name |-> "build-experiences"]]

InitDiff ==
    /\ data \in {EmptyStore} \cup {SetHashes(EmptyStore, "main", m) : m \in MapsOver(DiffKeys)}
    /\ disk = save_build_data(data)
    /\ scratch = {1}
    /\ current = {1}
    /\ req = [r \in Requests |->
                IF r = 1 THEN [DiffRun EXCEPT !.preData = data, !.preDisk = disk]
                ELSE IdleReq]
    /\ lastRun = [b \in Branches |-> NoSummary]
    /\ writer = IdleWriter
    /\ reader = NotLoaded
    /\ remote = [b \in Branches |-> EmptyMap]

NextDiff == CompareHashes(1, MapsOver(DiffKeys))

SpecDiff == InitDiff /\ [][NextDiff]_vars

\* ------------------------------------- the store, one file operation at a time
\* the server holds any store and is about to save it; the file is missing or
\* holds any store; a second process of the server may start at any moment
\* and load the file (server.py 23)
Stores ==
    UNION {[B -> FingerprintMaps] : B \in SUBSET Branches}

InitStore ==
    /\ data \in Stores
    /\ disk \in {NoFile} \cup {save_build_data(store) : store \in Stores}
    /\ scratch = {}
    /\ current = {}
    /\ req = [r \in Requests |-> IdleReq]
    /\ lastRun = [b \in Branches |-> NoSummary]
    /\ writer = [IdleWriter EXCEPT !.before = disk]
    /\ reader = NotLoaded
    /\ remote = [b \in Branches |-> EmptyMap]

\* data.py 26-28: a missing file is created empty
SaveTouch ==
    /\ writer.pc = "idle"
    /\ disk' = IF disk.exists THEN disk ELSE EmptyFile
    /\ writer' = [writer EXCEPT !.pc = "open"]
    /\ UNCHANGED <<data, scratch, current, req, lastRun, reader, remote>>

\* data.py 30: open(DATA_PATH, "w") truncates the file
SaveOpen ==
    /\ writer.pc = "open"
    /\ disk' = EmptyFile
    /\ writer' = [writer EXCEPT !.pc = "dump", !.todo = ToJson(data)]
    /\ UNCHANGED <<data, scratch, current, req, lastRun, reader, remote>>

\* data.py 31: json.dump writes the text piece by piece
SaveDump ==
    /\ writer.pc = "dump"
    /\ \E chunk \in writer.todo :
          /\ disk' = [disk EXCEPT !.content = @ \cup {chunk}]
          /\ writer' = [writer EXCEPT !.todo = @ \ {chunk}]
    /\ UNCHANGED <<data, scratch, current, req, lastRun, reader, remote>>

\* data.py 30-31: the end of the text is written and the file is closed
SaveClose ==
    /\ writer.pc = "dump"
    /\ writer.todo = {}
    /\ disk' = [disk EXCEPT !.complete = TRUE]
    /\ writer' = [writer EXCEPT !.pc = "done"]
    /\ UNCHANGED <<data, scratch, current, req, lastRun, reader, remote>>

\* data.py 17-22 in another process: reads the file as it is now
Load ==
    /\ reader' = IF JSONDecodeError(disk)
                 THEN [how |-> "raised", store |-> EmptyStore]
                 ELSE [how |-> "returned", store |-> load_build_data(disk)]
    /\ UNCHANGED <<data, disk, scratch, current, req, lastRun, writer, remote>>

NextStore ==
    \/ SaveTouch
    \/ SaveOpen
    \/ SaveDump
    \/ SaveClose
    \/ Load

SpecStore == InitStore /\ [][NextStore]_vars

\* ------------------------------------------------------ shared vocabulary
IsRunCompleted(body) == body.event_type = "workflow_run" /\ body.action = "completed"

PassesDispatch(body) ==
    /\ IsRunCompleted(body)
    /\ body.status = "completed"
    /\ body.event = "push"
    /\ body.head_branch \in DOMAIN config_targets

\* the handler of r has been entered (and its locals are still there)
Entered(r) ==
    /\ req[r].pc \notin {"idle", "verify", "json", "done"}
    /\ req[r].error # "Unauthorized"

PipelineRun(r) == Entered(r) /\ PassesDispatch(req[r].body)

ExperiencesRun(r) == PipelineRun(r) /\ req[r].body.name = "build-experiences"

Ended(r) == req[r].pc = "end"

IsStageOp(e) ==
    \/ e.kind = "rm"
    \/ e.kind = "rsync" /\ e.what \in {"experience", "configs"}
    \/ e.kind = "reload"

\* position of a log entry in the sequence of section 4.4: the report of a
\* stage, then its operations; 0 for everything else
StageRank(e) ==
    CASE e.kind = "status" /\ e.arg = "Deleting deleted experiences" -> 1
      [] e.kind = "rm" -> 2
      [] e.kind = "status" /\ e.arg = "Syncing experiences" -> 3
      [] e.kind = "rsync" /\ e.what = "experience" -> 4
      [] e.kind = "status" /\ e.arg = "Syncing editorial configs" -> 5
      [] e.kind = "rsync" /\ e.what = "configs" -> 6
      [] e.kind = "status" /\ e.arg = "Reloading controller" -> 7
      [] e.kind = "reload" -> 8
      [] OTHER -> 0

Indices(log) == 1..Len(log)

HasEntry(log, kind) == \E i \in Indices(log) : log[i].kind = kind

AllStagesSucceeded(log) ==
    /\ \E i \in Indices(log) : log[i].kind = "reload" /\ log[i].res = "ok"
    /\ \A i \in Indices(log) : IsStageOp(log[i]) => log[i].res = "ok"

\* ---------------------------------------------------------------- claims

\* C1: in an experiences run the persisted store is written only after the
\* delete, sync, auxiliary-config and reload stages have all succeeded, and a
\* run that does not end in success leaves the persisted store as it was
\* before the run.
C1_CommitAfterAllStages ==
    \A r \in Requests :
        ExperiencesRun(r) =>
            /\ HasEntry(req[r].log, "save") => AllStagesSucceeded(req[r].log)
            /\ (Ended(r) /\ req[r].result # "success") => disk = req[r].preDisk

\* C2: once an operation of a stage has failed, no operation of a later stage
\* is issued in that run (a failed removal is followed by no sync and no
\* reload request), and the persisted store keeps its pre-run value.
C2_FailedStageAborts ==
    \A r \in Requests :
        ExperiencesRun(r) =>
            \A i \in Indices(req[r].log) :
                (IsStageOp(req[r].log[i]) /\ req[r].log[i].res # "ok") =>
                    /\ \A j \in Indices(req[r].log) :
                          (j > i /\ IsStageOp(req[r].log[j])) =>
                              StageRank(req[r].log[j]) = StageRank(req[r].log[i])
                    /\ disk = req[r].preDisk

\* a run between its read of the stored map and its commit
InSection(r) ==
    /\ req[r].diffed
    /\ req[r].pc \in {"e_st_del", "e_del", "e_st_sync", "e_sync", "e_commit"}

\* C3: two runs for the same deployment key are never both between the read
\* of the stored FingerprintMap and the commit.
C3_NoInterleaving ==
    \A r1, r2 \in Requests :
        (r1 # r2 /\ InSection(r1) /\ InSection(r2)) =>
            Branch(req[r1]) # Branch(req[r2])

\* a run is inside its section while a second request for the same key, an
\* experiences run too, has arrived and waits for the event loop
C3_Witness ==
    \E r1, r2 \in Requests :
        /\ r1 # r2
        /\ InSection(r1)
        /\ req[r2].pc = "json"
        /\ PassesDispatch(req[r2].body)
        /\ req[r2].body.name = "build-experiences"
        /\ Branch(req[r2]) = Branch(req[r1])

\* C4: a retry with the manifest of the failed run before it computes the
\* added, changed and deleted sets that the failed run computed.
C4_RetrySameDiff ==
    \A r \in Requests :
        (ExperiencesRun(r) /\ req[r].diffed
            /\ lastRun[Branch(req[r])].failed
            /\ lastRun[Branch(req[r])].manifest = req[r].hashes) =>
                /\ req[r].new_hashes = lastRun[Branch(req[r])].added
                /\ req[r].changed_hashes = lastRun[Branch(req[r])].changed
                /\ req[r].deleted_hashes = lastRun[Branch(req[r])].deleted

IsTerminalReport(e) ==
    e.kind = "status" /\ e.what \in {"success", "failure"} /\ e.res = "ok"

\* C5: a run that passed dispatch ends with exactly one terminal report:
\* success if the handler returned, failure if it raised.
C5_OneTerminalReport ==
    \A r \in Requests :
        (PipelineRun(r) /\ Ended(r)) =>
            /\ Cardinality({i \in Indices(req[r].log) :
                               IsTerminalReport(req[r].log[i])}) = 1
            /\ \A i \in Indices(req[r].log) :
                  IsTerminalReport(req[r].log[i]) =>
                      (req[r].log[i].what = "success") = (req[r].result = "success")

\* C6: a status report that fails does not end the run: a run never stops at
\* a failed report, and a failed final report leaves the outcome a success.
C6_ReportFailureHarmless ==
    \A r \in Requests :
        (PipelineRun(r) /\ Ended(r) /\ req[r].log # <<>>
            /\ req[r].log[Len(req[r].log)].kind = "status"
            /\ req[r].log[Len(req[r].log)].res = "raise") =>
                /\ req[r].log[Len(req[r].log)].what = "success"
                /\ req[r].result = "success"

Ignorable(body) ==
    \/ body.status # "completed"
    \/ body.event # "push"
    \/ body.head_branch \notin DOMAIN config_targets

\* C7: a run-completed event that is not completed, not push-triggered or
\* whose branch is no key of the Target Registry never enters a pipeline: no
\* remote operation, no report, no fetch, no scratch directory, no change to
\* the store in memory or on disk, and it returns without an error.
C7_IgnoredEventNoEffect ==
    \A r \in Requests :
        (IsRunCompleted(req[r].body) /\ Ignorable(req[r].body)) =>
            /\ req[r].pc \in {"json", "end"}
            /\ req[r].log = <<>>
            /\ r \notin scratch
            /\ Entered(r) =>
                  /\ req[r].result = "ignored"
                  /\ data = req[r].preData
                  /\ disk = req[r].preDisk

\* the handler has returned on an event for "unknown-branch", with a store
\* that an earlier run has filled
C7_Witness ==
    \E r \in Requests :
        /\ Entered(r) /\ Ended(r)
        /\ IsRunCompleted(req[r].body)
        /\ req[r].body.status = "completed"
        /\ req[r].body.event = "push"
        /\ req[r].body.head_branch = "unknown-branch"
        /\ disk.exists

OldMap(r) == StoredHashes(req[r].preData, Branch(req[r]))

\* C8: added, deleted, changed and unchanged are pairwise disjoint and their
\* union is keys(old) \cup keys(new).
C8_DiffPartition ==
    \A r \in Requests :
        req[r].diffed =>
            LET A == req[r].new_hashes
                D == req[r].deleted_hashes
                C == req[r].changed_hashes
                U == req[r].unchanged_hashes
            IN  /\ A \cap D = {} /\ A \cap C = {} /\ A \cap U = {}
                /\ D \cap C = {} /\ D \cap U = {} /\ C \cap U = {}
                /\ A \cup D \cup C \cup U =
                      DOMAIN OldMap(r) \cup DOMAIN req[r].hashes

\* a diff in which three of the four sets are inhabited at once
C8_Witness ==
    \E r \in Requests :
        /\ req[r].diffed
        /\ req[r].new_hashes # {}
        /\ req[r].deleted_hashes # {}
        /\ req[r].changed_hashes # {}

\* C9: added = keys(new) \ keys(old), deleted = keys(old) \ keys(new), changed
\* and unchanged split the common keys by inequality of the fingerprints;
\* diff(old, old) has only unchanged keys; an empty manifest deletes every
\* stored key and adds none.
C9_DiffValues ==
    \A r \in Requests :
        req[r].diffed =>
            LET old == OldMap(r)
                new == req[r].hashes
            IN  /\ req[r].new_hashes = DOMAIN new \ DOMAIN old
                /\ req[r].deleted_hashes = DOMAIN old \ DOMAIN new
                /\ req[r].changed_hashes =
                      {k \in DOMAIN old \cap DOMAIN new : old[k] # new[k]}
                /\ req[r].unchanged_hashes =
                      {k \in DOMAIN old \cap DOMAIN new : old[k] = new[k]}
                /\ new = old =>
                      /\ req[r].new_hashes = {}
                      /\ req[r].deleted_hashes = {}
                      /\ req[r].changed_hashes = {}
                      /\ req[r].unchanged_hashes = DOMAIN old
                /\ DOMAIN new = {} =>
                      /\ req[r].deleted_hashes = DOMAIN old
                      /\ req[r].new_hashes = {}

\* old = {a: "1", b: "2"}, new = {b: "2", c: "1"}: one key added, one deleted,
\* one unchanged
C9_Witness ==
    \E r \in Requests :
        /\ req[r].diffed
        /\ OldMap(r) = [k \in {"a", "b"} |-> IF k = "a" THEN "1" ELSE "2"]
        /\ req[r].hashes = [k \in {"b", "c"} |-> IF k = "b" THEN "2" ELSE "1"]
        /\ req[r].new_hashes = {"c"}
        /\ req[r].deleted_hashes = {"a"}
        /\ req[r].unchanged_hashes = {"b"}

\* C10: in the log of an experiences run the stages appear in the order
\* delete, sync, auxiliary configs, reload; each stage is reported once, and
\* every operation of a stage comes directly after the successful report of
\* that stage or after another operation of that stage.
C10_StageOrder ==
    \A r \in Requests :
        ExperiencesRun(r) =>
            LET log == req[r].log
                rank == [i \in Indices(log) |-> StageRank(log[i])]
                staged == {i \in Indices(log) : rank[i] > 0}
            IN  /\ \A i, j \in staged :
                      i < j =>
                          /\ rank[i] <= rank[j]
                          /\ rank[i] \in {1, 3, 5, 7} => rank[i] < rank[j]
                /\ \A j \in staged :
                      rank[j] \in {2, 4, 6, 8} =>
                          /\ j > 1
                          /\ \/ rank[j - 1] = rank[j]
                             \/ rank[j - 1] = rank[j] - 1 /\ log[j - 1].res = "ok"

\* a successful experiences run that removed a key, synced a key, synced the
\* configs and reloaded
C10_Witness ==
    \E r \in Requests :
        /\ ExperiencesRun(r) /\ Ended(r) /\ req[r].result = "success"
        /\ \A n \in {2, 4, 6, 8} :
              \E i \in Indices(req[r].log) : StageRank(req[r].log[i]) = n

IsRemoteOp(e) == e.kind \in {"rm", "rsync", "reload"}

NoRemoteOp(log) == \A i \in Indices(log) : ~IsRemoteOp(log[i])

\* C11: a run whose artifacts listing has no entry with the expected name ends
\* with the missing-build error, has issued no remote operation, has created
\* no scratch directory and has changed the store neither in memory nor on
\* disk.
C11_MissingArtifact ==
    \A r \in Requests :
        (PipelineRun(r) /\ HasEntry(req[r].log, "fetch")
            /\ req[r].log[1].res = "ok"
            /\ ExpectedArtifact(req[r].body.name) \notin req[r].artifacts) =>
                /\ Ended(r)
                /\ req[r].result = "raised"
                /\ req[r].error = "Missing build"
                /\ Len(req[r].log) = 1
                /\ NoRemoteOp(req[r].log)
                /\ r \notin scratch
                /\ data = req[r].preData
                /\ disk = req[r].preDisk

\* an experiences run on a filled store has ended on a listing that holds
\* only the web build
C11_Witness ==
    \E r \in Requests :
        /\ ExperiencesRun(r) /\ Ended(r)
        /\ req[r].error = "Missing build"
        /\ req[r].artifacts = {"web-build"}
        /\ disk.exists

\* C12: a completed, push-triggered run on a known key whose name is neither
\* build-controls nor build-experiences ends with a hard error before any
\* side effect: no fetch, no scratch directory, no remote operation, no
\* report, no change to the store.
C12_UnknownKindNoEffect ==
    \A r \in Requests :
        (PipelineRun(r)
            /\ req[r].body.name \notin {"build-controls", "build-experiences"}) =>
                /\ Ended(r)
                /\ req[r].result = "raised"
                /\ req[r].error = "Unknown event name"
                /\ req[r].log = <<>>
                /\ r \notin scratch
                /\ data = req[r].preData
                /\ disk = req[r].preDisk

\* the handler has raised on a run named "lint", with a store that an earlier
\* run has filled
C12_Witness ==
    \E r \in Requests :
        /\ PipelineRun(r) /\ Ended(r)
        /\ req[r].body.name = "lint"
        /\ req[r].error = "Unknown event name"
        /\ disk.exists

\* the positions inside the `with TemporaryDirectory()` block
InsideWith ==
    (DOMAIN StatusSteps) \cup (DOMAIN SubprocessSteps)
        \cup {"e_read", "e_del", "e_sync", "e_commit", "c_reload", "e_reload"}

ControlsRun(r) == PipelineRun(r) /\ req[r].body.name = "build-controls"

\* C13: the scratch directory of a run exists only while the run is inside
\* its `with` block: once the run has ended, on whatever path, it is gone; and
\* a directory that exists belongs to the one run in progress.
C13_ScratchRemoved ==
    /\ \A r \in Requests :
          /\ r \in scratch => (Entered(r) /\ req[r].pc \in InsideWith)
          /\ (Ended(r) \/ req[r].pc \in {"final", "done"}) => r \notin scratch
    /\ scratch \subseteq current
    /\ Cardinality(scratch) <= 1

\* a run that had its directory has ended on a missing manifest, and the
\* directory is gone
C13_Witness ==
    \E r \in Requests :
        /\ ExperiencesRun(r) /\ Ended(r)
        /\ req[r].error = "FileNotFoundError"
        /\ HasEntry(req[r].log, "unzip")
        /\ r \notin scratch

\* the remote operations of a log, in order
RECURSIVE RemoteOps(_)
RemoteOps(log) ==
    IF log = <<>> THEN <<>>
    ELSE IF IsRemoteOp(Head(log))
         THEN <<[kind |-> Head(log).kind, what |-> Head(log).what]>>
                  \o RemoteOps(Tail(log))
         ELSE RemoteOps(Tail(log))

WebTransfer == [kind |-> "rsync", what |-> "web"]

Reload == [kind |-> "reload", what |-> "controller"]

\* C14: a controls run issues the one transfer to the web path and then the
\* one reload, whatever the store holds; it leaves the store alone, in memory
\* and on disk, and never writes it.
C14_ControlsRun ==
    \A r \in Requests :
        ControlsRun(r) =>
            /\ data = req[r].preData
            /\ disk = req[r].preDisk
            /\ ~HasEntry(req[r].log, "save")
            /\ RemoteOps(req[r].log) \in
                  {<<>>, <<WebTransfer>>, <<WebTransfer, Reload>>}
            /\ req[r].pc \in {"c_st_reload", "c_reload"} =>
                  RemoteOps(req[r].log) = <<WebTransfer>>
            /\ (req[r].pc = "final" \/ req[r].result = "success") =>
                  RemoteOps(req[r].log) = <<WebTransfer, Reload>>

\* a controls run has succeeded on a store that holds a non-empty map
C14_Witness ==
    \E r \in Requests :
        /\ ControlsRun(r) /\ Ended(r)
        /\ req[r].result = "success"
        /\ disk.exists
        /\ \E b \in DOMAIN data : DOMAIN data[b] # {}

IsJobQueued(body) == body.event_type = "workflow_job" /\ body.action = "queued"

JobQueuedRun(r) == Entered(r) /\ IsJobQueued(req[r].body)

\* the run of the queued job has been fetched
RunFetched(r) == HasEntry(req[r].log, "fetch") /\ req[r].log[1].res = "ok"

\* the job is the build job and its run is a push-triggered run of a
\* recognized kind on a branch of the Target Registry
Reportable(r) ==
    /\ req[r].body.name = "build"
    /\ RunFetched(r)
    /\ req[r].run_response.event = "push"
    /\ req[r].run_response.name \in {"build-controls", "build-experiences"}
    /\ req[r].run_response.head_branch \in DOMAIN config_targets

PendingReports(log) ==
    {i \in Indices(log) : log[i].kind = "status" /\ log[i].what = "pending"}

\* C15: a job-queued event for the build job of a push-triggered run of a
\* recognized kind on a known branch gives, once the handler is through (and
\* unless the status sink itself rejects the report), exactly one pending
\* report and nothing but the look-up of the run; any other job-queued event
\* gives no report; none changes the store or makes a scratch directory.
C15_QueuedJobReported ==
    \A r \in Requests :
        JobQueuedRun(r) =>
            /\ data = req[r].preData
            /\ disk = req[r].preDisk
            /\ r \notin scratch
            /\ NoRemoteOp(req[r].log)
            /\ (Ended(r) /\ req[r].error # "GithubException"
                    /\ (req[r].body.name = "build" => RunFetched(r))) =>
                  IF Reportable(r)
                  THEN /\ Cardinality(PendingReports(req[r].log)) = 1
                       /\ Len(req[r].log) = 2
                       /\ req[r].result = "reported"
                  ELSE /\ PendingReports(req[r].log) = {}
                       /\ Len(req[r].log) <= 1
                       /\ req[r].result = "ignored"

\* C16: whatever a load_build_data call returns while or after the store is
\* saved is the whole store of before the save or the whole store saved; it
\* never fails on, or returns, an empty or half-written file.
C16_AtomicCommit ==
    reader.how # "none" =>
        /\ reader.how = "returned"
        /\ reader.store \in {load_build_data(writer.before), data}

\* C17: once save_build_data(m) is through, the file is the one the whole
\* call writes and load_build_data gives m back; and with no file
\* load_build_data gives the empty store.
C17_RoundTrip ==
    /\ writer.pc = "done" =>
          /\ disk = save_build_data(data)
          /\ load_build_data(disk) = data
          /\ reader.how = "returned" /\ reader.store # load_build_data(writer.before)
                => reader.store = data
    /\ ~disk.exists => ~JSONDecodeError(disk) /\ load_build_data(disk) = EmptyStore

\* a store with two targets, one of them with an empty map, has been saved
\* over a file that held something else, and a load after the save returned it
C17_Witness ==
    /\ writer.pc = "done"
    /\ DOMAIN data = Branches
    /\ DOMAIN data["dev"] = {}
    /\ DOMAIN data["main"] = Keys
    /\ writer.before.exists
    /\ load_build_data(writer.before) # data
    /\ reader.how = "returned"
    /\ reader.store = data

\* the positions of the log's removals, and of its per-experience transfers
Removals(log) == {i \in Indices(log) : log[i].kind = "rm"}

Transfers(log) ==
    {i \in Indices(log) : log[i].kind = "rsync" /\ log[i].what = "experience"}

KeysAt(log, at) == {log[i].arg : i \in at}

\* no key is operated on twice
OncePerKey(log, at) == \A i \in at, j \in at : log[i].arg = log[j].arg => i = j

\* what the manifest lacks of the stored map, and what it adds to or changes in it
Gone(old, new) == DOMAIN old \ DOMAIN new

Stale(old, new) == {k \in DOMAIN new : k \notin DOMAIN old \/ old[k] # new[k]}

\* the controller location of the branch has a host part
HasHostPart(branch) == Len(config_targets[branch].controller_path) = 2

\* C18: an experiences run removes each deleted key once and transfers each
\* changed or added key once, and nothing else: never a key twice, never an
\* unchanged key; when the delete loop is through every deleted key has been
\* removed, when the sync loop is through every changed or added key has been
\* transferred. A removal goes over ssh if the controller location has a host
\* part and is local otherwise.
C18_OneOperationPerKey ==
    \A r \in Requests :
        (ExperiencesRun(r) /\ req[r].diffed) =>
            LET log == req[r].log
                gone == Gone(OldMap(r), req[r].hashes)
                stale == Stale(OldMap(r), req[r].hashes)
            IN  /\ OncePerKey(log, Removals(log))
                /\ OncePerKey(log, Transfers(log))
                /\ KeysAt(log, Removals(log)) \subseteq gone
                /\ KeysAt(log, Transfers(log)) \subseteq stale
                /\ \A i \in Removals(log) :
                      log[i].what = IF HasHostPart(Branch(req[r])) THEN "ssh" ELSE "local"
                /\ (req[r].pc \in {"e_st_sync", "e_sync"} \/ HasEntry(log, "save")) =>
                      KeysAt(log, Removals(log)) = gone
                /\ HasEntry(log, "save") => KeysAt(log, Transfers(log)) = stale

\* a run on "main", whose controller is remote, is through both loops: it
\* has removed "a" over ssh and transferred "b", whose fingerprint changed
C18_Witness ==
    \E r \in Requests :
        /\ ExperiencesRun(r) /\ req[r].diffed
        /\ Branch(req[r]) = "main"
        /\ HasEntry(req[r].log, "save")
        /\ Gone(OldMap(r), req[r].hashes) = {"a"}
        /\ "b" \in DOMAIN OldMap(r)
        /\ Stale(OldMap(r), req[r].hashes) = {"b"}
        /\ \E i \in Removals(req[r].log) : req[r].log[i].what = "ssh"

\* C19: the controller starts out holding what the store says; whenever an
\* experiences run ends in success, the controller holds for the run's
\* branch the run's manifest exactly: every key of the manifest with the
\* manifest's fingerprint, and no other key.
C19_Convergence ==
    \A r \in Requests :
        (ExperiencesRun(r) /\ Ended(r) /\ req[r].result = "success") =>
            remote[Branch(req[r])] = req[r].hashes

\* C20: a run on one branch leaves the persisted map of every other branch
\* as it was when the run began.
C20_OtherKeysUntouched ==
    \A r \in Requests :
        PipelineRun(r) =>
            \A other \in Branches \ {Branch(req[r])} :
                StoredHashes(load_build_data(disk), other)
                    = StoredHashes(load_build_data(req[r].preDisk), other)

====
